---- MODULE Spec2Model ----
(***************************************************************************)
(* A model of SQLtPlainKV (src/sqlt-plainkv.go): a bucket-namespaced       *)
(* key-value store kept in one SQLite table through database/sql.         *)
(*                                                                         *)
(* Strings and byte slices are sequences of one-character strings, so     *)
(* that formatting (tallyKey, strconv.Itoa) and parsing (strconv.Atoi)     *)
(* are computed and not assumed.                                           *)
(*                                                                         *)
(* The engine (database/sql over SQLite) is modelled by what the code      *)
(* relies on: a table of rows with primary key (Bucket, KeyID); handles    *)
(* that are either the pool p.db (every statement auto-committed) or a     *)
(* transaction *sql.Tx (statements buffered until Commit); a single        *)
(* writer at a time; a finished *sql.Tx answering ErrTxDone; and any       *)
(* engine call possibly returning an error.                                *)
(***************************************************************************)
EXTENDS Integers, Sequences, FiniteSets, TLC

VARIABLES
    pkv,          \* pkv[i]: the fields of store instance i (type SQLtPlainKV);
                  \* db is p.db != nil, dbClosed that the pool it points to is closed
    store,        \* the committed rows of table KeyValueTBL
    tableExists,  \* whether CREATE TABLE has succeeded on the database file
    etx,          \* etx[t]: the engine's transaction behind the *sql.Tx numbered t
    panicked,     \* the process died of a nil-pointer dereference
    audit,        \* whether snap and issued are kept (a choice of Init)
    snap,         \* the committed rows at the last Begin
    issued,       \* the writes that succeeded since the last Begin, if it succeeded
    race          \* position and locals of each caller of SpecRace

vars == <<pkv, store, tableExists, etx, panicked, audit, snap, issued, race>>

(***************************************************************************)
(* Bounds of the model.                                                    *)
(***************************************************************************)
MaxTx == 2        \* transactions the engine knows of at one time
MaxTally == 1     \* counters stay within -MaxTally..MaxTally

Inst == {1, 2}
Keys == {<<"a">>}
TallyKeys == {<<"a">>}
Vals == {<<"x">>, <<"y">>}
Patterns == {<<"a">>, <<"_">>}
Mimes == {<<"j">>}
Offsets == {0, 1}

(***************************************************************************)
(* Constants of the program.                                               *)
(***************************************************************************)
default == <<"d", "e", "f", "a", "u", "l", "t">>
mimeBuckt == <<"-", "-", "m", "i", "m", "e", "-", "-">>
textHtml == <<"t", "e", "x", "t", "/", "h", "t", "m", "l">>
MaxBucketLen == 50
MaxKeyLen == 300
MaxValueLen == 16777215

Buckets == {<<>>, default, <<"b">>}
TallyBuckets == {<<>>, default}

\* fmt.Sprintf(tallyKey, key)
tallyKey(key) ==
    <<"_", "_", "_", "_", "_", "_", "_", "#", "t", "a", "l", "l", "y", "-">> \o key

DigitChars == <<"0", "1", "2", "3", "4", "5", "6", "7", "8", "9">>

RECURSIVE ItoaNat(_)
ItoaNat(n) ==
    IF n < 10 THEN <<DigitChars[n + 1]>>
    ELSE ItoaNat(n \div 10) \o <<DigitChars[(n % 10) + 1]>>

\* strconv.Itoa
Itoa(n) == IF n < 0 THEN <<"-">> \o ItoaNat(-n) ELSE ItoaNat(n)

IsDigit(c) == \E d \in 1..10 : DigitChars[d] = c
DigitVal(c) == (CHOOSE d \in 1..10 : DigitChars[d] = c) - 1

RECURSIVE AtoiNat(_, _)
AtoiNat(str, acc) ==
    IF str = <<>> THEN acc
    ELSE AtoiNat(Tail(str), acc * 10 + DigitVal(Head(str)))

\* strconv.Atoi with its error dropped: 0 for anything that is not a number
Atoi(str) ==
    LET signed == str # <<>> /\ Head(str) \in {"-", "+"}
        body == IF signed THEN Tail(str) ELSE str
    IN  IF body = <<>> \/ \E i \in 1..Len(body) : ~IsDigit(body[i]) THEN 0
        ELSE IF signed /\ Head(str) = "-" THEN -AtoiNat(body, 0)
        ELSE AtoiNat(body, 0)

(***************************************************************************)
(* The table.                                                              *)
(***************************************************************************)
Row(b, k, v) == [Bucket |-> b, KeyID |-> k, Value |-> v]
Lookup(rows, b, k) == {r \in rows : r.Bucket = b /\ r.KeyID = k}
\* INSERT ... ON CONFLICT(Bucket,KeyID) DO UPDATE SET Value=excluded.Value
Upsert(rows, b, k, v) == (rows \ Lookup(rows, b, k)) \cup {Row(b, k, v)}
\* DELETE FROM ... WHERE Bucket = ? AND KeyID = ?
Delete(rows, b, k) == rows \ Lookup(rows, b, k)

(***************************************************************************)
(* A call runs on a record s: s.p the instance's fields, the engine's      *)
(* state (store, tableExists, etx), and what the call has done so far.    *)
(* s.fail counts down to the engine call that returns an error (0: none): *)
(* at most one engine call fails in one method call.                      *)
(* A handle h is 0 for p.db and t > 0 for the transaction etx[t].         *)
(***************************************************************************)
Fails(s) == s.fail = 1
Tick(s) == [s EXCEPT !.fail = IF @ > 0 THEN @ - 1 ELSE 0]
Res(s, err, val) == [s |-> s, err |-> err, val |-> val]

\* another connection holds SQLite's write lock
Locked(s, h) ==
    \E t \in DOMAIN s.etx :
        t # h /\ s.etx[t].status = "open" /\ s.etx[t].writer

\* the rows a statement on handle h sees
Visible(s, h) ==
    IF h > 0 /\ s.etx[h].writer THEN s.etx[h].rows ELSE s.store

StmtErr(s, h, write) ==
    IF h > 0 /\ s.etx[h].status # "open" THEN "ErrTxDone"
    ELSE IF h = 0 /\ s.p.dbClosed THEN "engine"
    ELSE IF Fails(s) \/ ~s.tableExists \/ (write /\ Locked(s, h)) THEN "engine"
    ELSE "nil"

\* the effect of a successful writing statement on handle h
Written(s, h, rows) ==
    IF h = 0 THEN [s EXCEPT !.store = rows]
    ELSE [s EXCEPT !.etx[h].writer = TRUE, !.etx[h].rows = rows]

Routed(s, h) == [s EXCEPT !.routes = @ \cup {h}]

\* tx.Exec / db.Exec of the upsert
ExecUpsert(s, h, b, k, v) ==
    LET e == StmtErr(s, h, TRUE)
        s1 == Routed(Tick(s), h)
    IN  IF e # "nil" THEN Res(s1, e, <<>>)
        ELSE Res([Written(s1, h, Upsert(Visible(s, h), b, k, v)) EXCEPT
                     !.log = [touched |-> @.touched \cup {<<b, k>>},
                              rows |-> Upsert(@.rows, b, k, v)]],
                 "nil", <<>>)

\* tx.Exec / db.Exec of the delete
ExecDelete(s, h, b, k) ==
    LET e == StmtErr(s, h, TRUE)
        s1 == Routed(Tick(s), h)
    IN  IF e # "nil" THEN Res(s1, e, <<>>)
        ELSE Res([Written(s1, h, Delete(Visible(s, h), b, k)) EXCEPT
                     !.log = [touched |-> @.touched \cup {<<b, k>>},
                              rows |-> Delete(@.rows, b, k)]],
                 "nil", <<>>)

\* tx.QueryRow / db.QueryRow and Scan: sql.ErrNoRows leaves val empty
QueryValue(s, h, b, k) ==
    LET e == StmtErr(s, h, FALSE)
        s1 == Routed(Tick(s), h)
        hit == Lookup(Visible(s, h), b, k)
    IN  IF e # "nil" THEN Res(s1, e, <<>>)
        ELSE IF hit = {} THEN Res(s1, "ErrNoRows", <<>>)
        ELSE Res(s1, "nil", (CHOOSE r \in hit : TRUE).Value)

\* SQLite's LIKE: % is any run of characters, _ any one character, and
\* ASCII letters match whatever their case
UpperCase == <<"A", "B", "C", "D", "E", "F", "G", "H", "I", "J", "K", "L", "M",
               "N", "O", "P", "Q", "R", "S", "T", "U", "V", "W", "X", "Y", "Z">>
LowerCase == <<"a", "b", "c", "d", "e", "f", "g", "h", "i", "j", "k", "l", "m",
               "n", "o", "p", "q", "r", "s", "t", "u", "v", "w", "x", "y", "z">>
Fold(c) ==
    IF \E n \in DOMAIN UpperCase : UpperCase[n] = c
    THEN LowerCase[CHOOSE n \in DOMAIN UpperCase : UpperCase[n] = c]
    ELSE c

RECURSIVE Like(_, _)
Like(pat, str) ==
    IF pat = <<>> THEN str = <<>>
    ELSE IF Head(pat) = "%"
         THEN Like(Tail(pat), str) \/ (str # <<>> /\ Like(pat, Tail(str)))
    ELSE /\ str # <<>>
         /\ Head(pat) = "_" \/ Fold(Head(pat)) = Fold(Head(str))
         /\ Like(Tail(pat), Tail(str))

\* tx.Query / db.Query of SELECT KeyID ... WHERE Bucket=? AND KeyID LIKE ?
\* and the loop over its rows; their order is the engine's, so val is a set
QueryKeys(s, h, b, pat) ==
    LET e == StmtErr(s, h, FALSE)
        s1 == Routed(Tick(s), h)
    IN  IF e # "nil" THEN Res(s1, e, {})
        ELSE Res(s1, "nil",
                 {r.KeyID : r \in {q \in Visible(s, h) :
                                      q.Bucket = b /\ Like(pat, q.KeyID)}})

(***************************************************************************)
(* The methods of SQLtPlainKV.  Each takes the state s it starts in and   *)
(* gives Res(state after, error returned, value returned).                *)
(***************************************************************************)
\* a *sql.Tx that is finished and that p.tx stops pointing to is garbage:
\* its number can name a later transaction
FreeTx == [status |-> "free", writer |-> FALSE, rows |-> {}]
Release(s, t) ==
    IF t # 0 /\ s.etx[t].status = "done" THEN [s EXCEPT !.etx[t] = FreeTx] ELSE s
FreeSlots(s) == {t \in DOMAIN s.etx : s.etx[t].status = "free"}

\* a method call through the nil pointer p.tx or p.db
Panic(s) == Res([s EXCEPT !.panicked = TRUE], "panic", <<>>)

\* the handle a statement is sent to: p.tx when p.inTransaction, else p.db
Handle(s) == IF s.p.inTransaction THEN s.p.tx ELSE 0
NilTx(s) == s.p.inTransaction /\ s.p.tx = 0

\* the engine's transaction t is finished; tx.Commit and tx.Rollback finish
\* the *sql.Tx also when the engine returns an error, and nothing is applied
Finished(s, t) ==
    [s EXCEPT !.etx[t] = [status |-> "done", writer |-> FALSE, rows |-> {}]]

\* Close as it would be if it committed the transaction it drops
CloseCommitting(s) ==
    LET t == s.p.tx
        s0 == IF t # 0 /\ s.etx[t].status = "open"
              THEN [Finished(s, t) EXCEPT !.store = Visible(s, t)]
              ELSE s
        s1 == [Release(s0, t) EXCEPT !.p.tx = 0]
    IN  IF ~s1.p.db THEN Res(s1, "nil", <<>>)
        ELSE IF s1.p.dbClosed
             THEN Res([s1 EXCEPT !.p.db = FALSE, !.p.dbClosed = FALSE], "nil", <<>>)
        ELSE IF Fails(s1) THEN Res([Tick(s1) EXCEPT !.p.dbClosed = TRUE], "engine", <<>>)
        ELSE Res([Tick(s1) EXCEPT !.p.db = FALSE], "nil", <<>>)

\* Close: drops p.tx without finishing it, then closes the pool.  A
\* db.Close() that returns an error has closed the pool all the same, and
\* p.db keeps pointing to it; closing it again returns nil
Close(s) ==
    LET s1 == [Release(s, s.p.tx) EXCEPT !.p.tx = 0]
    IN  IF ~s1.p.db THEN Res(s1, "nil", <<>>)
        ELSE IF s1.p.dbClosed
             THEN Res([s1 EXCEPT !.p.db = FALSE, !.p.dbClosed = FALSE], "nil", <<>>)
        ELSE IF Fails(s1) THEN Res([Tick(s1) EXCEPT !.p.dbClosed = TRUE], "engine", <<>>)
        ELSE Res([Tick(s1) EXCEPT !.p.db = FALSE], "nil", <<>>)

\* defer p.Close() under p.autoClose: runs on every return, result dropped
Deferred(r) == IF r.s.p.autoClose THEN [r EXCEPT !.s = Close(r.s).s] ELSE r

\* Open as it would be if it reset p.inTransaction before looking at p.db
OpenResetting(s) ==
    LET s1 == [s EXCEPT !.p.inTransaction = FALSE]
    IN  IF s.p.db THEN Res(s1, "nil", <<>>)
        ELSE IF Fails(s1) THEN Res(Tick(s1), "engine", <<>>)
        ELSE LET s2 == [Tick(s1) EXCEPT !.p.db = TRUE]
             IN  IF Fails(s2) THEN Res(Tick(s2), "engine", <<>>)
                 ELSE Res([Tick(s2) EXCEPT !.tableExists = TRUE], "nil", <<>>)

\* Open: nothing when p.db is set; else sql.Open and CREATE TABLE IF NOT EXISTS
Open(s) ==
    IF s.p.db THEN Res(s, "nil", <<>>)
    ELSE LET s1 == [s EXCEPT !.p.inTransaction = FALSE]
         IN  IF Fails(s1) THEN Res(Tick(s1), "engine", <<>>)
             ELSE LET s2 == [Tick(s1) EXCEPT !.p.db = TRUE]
                  IN  IF Fails(s2) THEN Res(Tick(s2), "engine", <<>>)
                      ELSE Res([Tick(s2) EXCEPT !.tableExists = TRUE], "nil", <<>>)

get(s, bucket, key) ==
    LET o == Open(s)
    IN  IF o.err # "nil" THEN Res(o.s, o.err, <<>>)
        ELSE LET b == IF bucket = <<>> THEN default ELSE bucket
                 q == IF NilTx(o.s) THEN Panic(o.s)
                      ELSE QueryValue(o.s, Handle(o.s), b, key)
             IN  Deferred(IF q.err = "ErrNoRows" THEN Res(q.s, "nil", <<>>) ELSE q)

\* set as it would be if a value of exactly 16,777,215 bytes were too long
setValueBelow(s, bucket, key, value) ==
    LET o == Open(s)
    IN  IF o.err # "nil" THEN Res(o.s, o.err, <<>>)
        ELSE Deferred(
               IF Len(bucket) > MaxBucketLen THEN Res(o.s, "ErrBucketIdTooLong", <<>>)
               ELSE IF Len(key) > MaxKeyLen THEN Res(o.s, "ErrKeyTooLong", <<>>)
               ELSE IF Len(value) >= MaxValueLen THEN Res(o.s, "ErrValueTooLong", <<>>)
               ELSE IF NilTx(o.s) THEN Panic(o.s)
               ELSE ExecUpsert(o.s, Handle(o.s), bucket, key, value))

set(s, bucket, key, value) ==
    LET o == Open(s)
    IN  IF o.err # "nil" THEN Res(o.s, o.err, <<>>)
        ELSE Deferred(
               IF Len(bucket) > MaxBucketLen THEN Res(o.s, "ErrBucketIdTooLong", <<>>)
               ELSE IF Len(key) > MaxKeyLen THEN Res(o.s, "ErrKeyTooLong", <<>>)
               ELSE IF Len(value) > MaxValueLen THEN Res(o.s, "ErrValueTooLong", <<>>)
               ELSE IF NilTx(o.s) THEN Panic(o.s)
               ELSE ExecUpsert(o.s, Handle(o.s), bucket, key, value))

Get(s, key) == get(s, s.p.currBuckt, key)

GetMime(s, key) ==
    LET g == get(s, mimeBuckt, key)
    IN  IF g.err # "nil" \/ Len(g.val) = 0 THEN Res(g.s, g.err, textHtml) ELSE g

\* if p.currBuckt == "" { p.currBuckt = "default" }
Normalised(s) ==
    IF s.p.currBuckt = <<>> THEN [s EXCEPT !.p.currBuckt = default] ELSE s

Set(s, key, value) ==
    LET s1 == Normalised(s) IN set(s1, s1.p.currBuckt, key, value)

SetMime(s, key, mime) == set(s, mimeBuckt, key, mime)

SetBucket(s, bucket) == Res([s EXCEPT !.p.currBuckt = bucket], "nil", <<>>)

\* Del as it would be if it deleted the mime row first
DelMimeFirst(s, key) ==
    LET o == Open(s)
    IN  IF o.err # "nil" THEN Res(o.s, o.err, <<>>)
        ELSE LET s1 == Normalised(o.s)
                 d1 == IF NilTx(s1) THEN Panic(s1)
                       ELSE ExecDelete(s1, Handle(s1), mimeBuckt, key)
             IN  Deferred(IF d1.err # "nil" THEN d1
                          ELSE ExecDelete(d1.s, Handle(d1.s), s1.p.currBuckt, key))

\* Del: the data row, then the mime row, both on the same handle
Del(s, key) ==
    LET o == Open(s)
    IN  IF o.err # "nil" THEN Res(o.s, o.err, <<>>)
        ELSE LET s1 == Normalised(o.s)
                 d1 == IF NilTx(s1) THEN Panic(s1)
                       ELSE ExecDelete(s1, Handle(s1), s1.p.currBuckt, key)
             IN  Deferred(IF d1.err # "nil" THEN d1
                          ELSE ExecDelete(d1.s, Handle(d1.s), mimeBuckt, key))

ListKeys(s, pattern) ==
    LET o == Open(s)
    IN  IF o.err # "nil" THEN Res(o.s, o.err, {})
        ELSE LET s1 == Normalised(o.s)
             IN  Deferred(IF NilTx(s1) THEN Res(Panic(s1).s, "panic", {})
                          ELSE QueryKeys(s1, Handle(s1), s1.p.currBuckt,
                                         pattern \o <<"%">>))

\* the first statement of Tally: the counter's row is read
TallyRead(s, key) == get(s, s.p.currBuckt, tallyKey(key))

\* the second statement of Tally: an empty read makes it write the offset
TallyInit(g, key, offset) ==
    IF Len(g.val) = 0
    THEN set(g.s, g.s.p.currBuckt, tallyKey(key), Itoa(offset))
    ELSE Res(g.s, "nil", <<>>)

\* Tally: the value parsed is the one read, also when the row was just created
Tally(s, key, offset) ==
    LET g == TallyRead(s, key)
    IN  IF g.err # "nil" THEN Res(g.s, g.err, -1)
        ELSE LET w == TallyInit(g, key, offset)
             IN  IF w.err # "nil" THEN Res(w.s, w.err, -1)
                 ELSE Res(w.s, "nil", Atoi(g.val))

\* TallyStep as it would be if it returned the value read
TallyStepStale(t, key, d) ==
    LET w == set(t.s, t.s.p.currBuckt, tallyKey(key), Itoa(t.val + d))
    IN  Res(w.s, w.err, t.val)

\* the write that ends TallyIncr (d = 1) and TallyDecr (d = -1)
TallyStep(t, key, d) ==
    LET w == set(t.s, t.s.p.currBuckt, tallyKey(key), Itoa(t.val + d))
    IN  IF w.err # "nil" THEN Res(w.s, w.err, t.val)
        ELSE Res(w.s, "nil", t.val + d)

TallyIncr(s, key) ==
    LET t == Tally(s, key, 0)
    IN  IF t.err # "nil" THEN t ELSE TallyStep(t, key, 1)

TallyDecr(s, key) ==
    LET t == Tally(s, key, 0)
    IN  IF t.err # "nil" THEN t ELSE TallyStep(t, key, -1)

TallyReset(s, key) == set(s, s.p.currBuckt, tallyKey(key), <<"0">>)

\* Begin: p.db.Begin() on a nil p.db panics; p.tx is assigned also on error
Begin(s) ==
    IF ~s.p.db THEN Panic(s)
    ELSE LET s1 == Release(s, s.p.tx)
             t == CHOOSE n \in FreeSlots(s1) : \A m \in FreeSlots(s1) : n <= m
         IN  IF Fails(s) \/ s.p.dbClosed
             THEN Res([Tick(s1) EXCEPT !.p.tx = 0], "engine", <<>>)
             ELSE Res([Tick(s1) EXCEPT
                          !.etx[t] = [status |-> "open", writer |-> FALSE, rows |-> {}],
                          !.p.tx = t,
                          !.p.inTransaction = TRUE],
                      "nil", <<>>)

Commit(s) ==
    LET t == s.p.tx
    IN  IF t = 0 THEN Res(s, "nil", <<>>)
        ELSE IF s.etx[t].status # "open" THEN Res(s, "ErrTxDone", <<>>)
        ELSE IF Fails(s) THEN Res(Finished(Tick(s), t), "engine", <<>>)
        ELSE Res([Finished(Tick(s), t) EXCEPT
                     !.store = Visible(s, t),
                     !.p.inTransaction = FALSE],
                 "nil", <<>>)

Rollback(s) ==
    LET t == s.p.tx
    IN  IF t = 0 THEN Res(s, "nil", <<>>)
        ELSE IF s.etx[t].status # "open" THEN Res(s, "ErrTxDone", <<>>)
        ELSE IF Fails(s) THEN Res(Finished(Tick(s), t), "engine", <<>>)
        ELSE Res([Finished(Tick(s), t) EXCEPT !.p.inTransaction = FALSE],
                 "nil", <<>>)

(***************************************************************************)
(* The state machine.  A step is one call of a method by instance i, with *)
(* its arguments and the engine call that fails drawn from small sets.    *)
(***************************************************************************)
NewSQLtPlainKV(autoClose) ==
    [db |-> FALSE, dbClosed |-> FALSE, tx |-> 0, currBuckt |-> default,
     autoClose |-> autoClose, inTransaction |-> FALSE]

NoSnap == [on |-> FALSE, rows |-> {}]
NoLog == [on |-> FALSE, tx |-> 0, touched |-> {}, rows |-> {}]
Idle == [pc |-> "idle", read |-> <<>>, ret |-> 0]

\* one instance on a new database file, with either autoClose setting
Fresh ==
    /\ \E a \in BOOLEAN :
          pkv = [i \in Inst |-> NewSQLtPlainKV(IF i = 1 THEN a ELSE FALSE)]
    /\ store = {}
    /\ tableExists = FALSE
    /\ etx = [t \in 1..MaxTx |-> FreeTx]
    /\ panicked = FALSE
    /\ snap = NoSnap
    /\ issued = NoLog
    /\ race = [i \in Inst |-> Idle]

Init == Fresh /\ audit = FALSE

\* the state a call by instance i starts in
Start(i, f) ==
    [p |-> pkv[i], store |-> store, tableExists |-> tableExists, etx |-> etx,
     fail |-> f, panicked |-> FALSE, routes |-> {},
     log |-> [touched |-> issued.touched, rows |-> issued.rows]]

\* the call's effect on the instance and on the engine
Effect(i, r) ==
    /\ pkv' = [pkv EXCEPT ![i] = r.s.p]
    /\ store' = r.s.store
    /\ tableExists' = r.s.tableExists
    /\ etx' = r.s.etx
    /\ panicked' = r.s.panicked
    /\ audit' = audit

Called(i, r) == Effect(i, r) /\ race' = race

\* a call of Set, Del, SetMime, Tally, TallyIncr, TallyDecr or TallyReset
Write(i, r) ==
    /\ Called(i, r)
    /\ snap' = snap
    /\ issued' = IF issued.on
                 THEN [issued EXCEPT !.touched = r.s.log.touched, !.rows = r.s.log.rows]
                 ELSE issued

\* a call of Open, SetBucket, Get, GetMime or ListKeys
Other(i, r) ==
    /\ Called(i, r)
    /\ snap' = NoSnap
    /\ issued' = issued

\* f-th engine call of the method fails, of the n it can make; 0: none fails
Failing(n) == 0..n
InRange(n) == n \in (0 - MaxTally)..MaxTally

DoOpen(i) == \E f \in Failing(2) :
    /\ ~panicked
    /\ Other(i, Open(Start(i, f)))

DoClose(i) == \E f \in Failing(1) :
    /\ ~panicked
    /\ Called(i, Close(Start(i, f)))
    /\ snap' = NoSnap
    /\ issued' = NoLog

DoSetBucket(i, B) == \E b \in B :
    /\ ~panicked
    /\ Other(i, SetBucket(Start(i, 0), b))

DoGet(i) == \E f \in Failing(4), k \in Keys :
    /\ ~panicked
    /\ Other(i, Get(Start(i, f), k))

DoGetMime(i) == \E f \in Failing(4), k \in Keys :
    /\ ~panicked
    /\ Other(i, GetMime(Start(i, f), k))

DoListKeys(i) == \E f \in Failing(4), pat \in Patterns :
    /\ ~panicked
    /\ Other(i, ListKeys(Start(i, f), pat))

DoSet(i) == \E f \in Failing(4), k \in Keys, v \in Vals :
    /\ ~panicked
    /\ Write(i, Set(Start(i, f), k, v))

DoSetMime(i) == \E f \in Failing(4), k \in Keys, m \in Mimes :
    /\ ~panicked
    /\ Write(i, SetMime(Start(i, f), k, m))

DoDel(i) == \E f \in Failing(5), k \in Keys :
    /\ ~panicked
    /\ Write(i, Del(Start(i, f), k))

DoTally(i) == \E f \in Failing(8), k \in TallyKeys, n \in Offsets :
    /\ ~panicked
    /\ Write(i, Tally(Start(i, f), k, n))

DoTallyIncr(i) == \E f \in Failing(12), k \in TallyKeys :
    LET r == TallyIncr(Start(i, f), k)
    IN  /\ ~panicked
        /\ InRange(r.val)
        /\ Write(i, r)

DoTallyDecr(i) == \E f \in Failing(12), k \in TallyKeys :
    LET r == TallyDecr(Start(i, f), k)
    IN  /\ ~panicked
        /\ InRange(r.val)
        /\ Write(i, r)

DoTallyReset(i) == \E f \in Failing(4), k \in TallyKeys :
    /\ ~panicked
    /\ Write(i, TallyReset(Start(i, f), k))

\* the engine can hold no more than MaxTx transactions
DoBegin(i) == \E f \in Failing(1) :
    LET r == Begin(Start(i, f))
    IN  /\ ~panicked
        /\ pkv[i].db => FreeSlots(Release(Start(i, f), pkv[i].tx)) # {}
        /\ Called(i, r)
        /\ snap' = IF audit /\ r.err = "nil" THEN [on |-> TRUE, rows |-> store]
                   ELSE NoSnap
        /\ issued' = IF audit /\ r.err = "nil"
                     THEN [NoLog EXCEPT !.on = TRUE, !.tx = r.s.p.tx]
                     ELSE NoLog

DoCommit(i) == \E f \in Failing(1) :
    /\ ~panicked
    /\ Called(i, Commit(Start(i, f)))
    /\ snap' = NoSnap
    /\ issued' = NoLog

DoRollback(i) == \E f \in Failing(1) :
    /\ ~panicked
    /\ Called(i, Rollback(Start(i, f)))
    /\ snap' = NoSnap
    /\ issued' = NoLog

\* Open, Close, Begin, Commit, Rollback
Lifecycle ==
    \/ DoOpen(1)
    \/ DoClose(1)
    \/ DoBegin(1)
    \/ DoCommit(1)
    \/ DoRollback(1)

\* values, their mime types and their keys
Next ==
    \/ Lifecycle
    \/ DoSetBucket(1, Buckets)
    \/ DoGet(1)
    \/ DoGetMime(1)
    \/ DoSet(1)
    \/ DoSetMime(1)
    \/ DoDel(1)
    \/ DoListKeys(1)

Spec == Init /\ [][Next]_vars

\* counters
NextTally ==
    \/ Lifecycle
    \/ DoSetBucket(1, TallyBuckets)
    \/ DoTally(1)
    \/ DoTallyIncr(1)
    \/ DoTallyDecr(1)
    \/ DoTallyReset(1)

SpecTally == Init /\ [][NextTally]_vars

\* every writing method in the default bucket, with snap and issued kept
InitTxn == Fresh /\ audit = TRUE
NextTxn ==
    \/ Lifecycle
    \/ DoSet(1)
    \/ DoSetMime(1)
    \/ DoDel(1)
    \/ DoTally(1)
    \/ DoTallyIncr(1)
    \/ DoTallyDecr(1)
    \/ DoTallyReset(1)

SpecTxn == InitTxn /\ [][NextTxn]_vars

(***************************************************************************)
(* Two instances on one database, each calling TallyIncr once on the same *)
(* key with no transaction begun.  The callers run concurrently, so a     *)
(* step is one statement of TallyIncr: the read and the write of Tally,   *)
(* then the write of the new value.                                       *)
(***************************************************************************)
RaceKey == <<"a">>
RaceRow == Lookup(store, default, tallyKey(RaceKey))

InitRace ==
    /\ pkv \in [Inst -> {NewSQLtPlainKV(a) : a \in BOOLEAN}]
    /\ \E rows \in {{}} \cup {{Row(default, tallyKey(RaceKey), Itoa(n))} :
                                n \in 0..MaxTally} :
          store = rows /\ tableExists = (rows # {})
    /\ etx = [t \in 1..MaxTx |-> FreeTx]
    /\ panicked = FALSE
    /\ audit = FALSE
    /\ snap = NoSnap
    /\ issued = NoLog
    /\ race = [i \in Inst |-> Idle]

Raced(i, r, pc, read, ret) ==
    /\ Effect(i, r)
    /\ race' = [race EXCEPT ![i] =
                   IF r.err # "nil" THEN [pc |-> "failed", read |-> read, ret |-> ret]
                   ELSE [pc |-> pc, read |-> read, ret |-> ret]]
    /\ UNCHANGED <<snap, issued>>

\* tlly, err := p.get(p.currBuckt, tk) in Tally
RaceRead(i) == \E f \in Failing(4) :
    LET g == TallyRead(Start(i, f), RaceKey)
    IN  /\ ~panicked
        /\ race[i].pc = "idle"
        /\ Raced(i, g, IF Len(g.val) = 0 THEN "init" ELSE "write", g.val, 0)

\* p.set(p.currBuckt, tk, []byte(strconv.Itoa(offset))) in Tally, offset 0
RaceInit(i) == \E f \in Failing(4) :
    LET w == TallyInit(Res(Start(i, f), "nil", race[i].read), RaceKey, 0)
    IN  /\ ~panicked
        /\ race[i].pc = "init"
        /\ Raced(i, w, "write", race[i].read, 0)

\* the p.set of TallyIncr, on the value Tally returned
RaceWrite(i) == \E f \in Failing(4) :
    LET r == TallyStep(Res(Start(i, f), "nil", Atoi(race[i].read)), RaceKey, 1)
    IN  /\ ~panicked
        /\ race[i].pc = "write"
        /\ Raced(i, r, "done", race[i].read, r.val)

NextRace ==
    \/ \E i \in Inst : RaceRead(i)
    \/ \E i \in Inst : RaceInit(i)
    \/ \E i \in Inst : RaceWrite(i)

SpecRace == InitRace /\ [][NextRace]_vars

(***************************************************************************)
(* The properties.  Me is the state in which the next call of instance 1      *)
(* starts, with no engine call failing; a method applied to it gives what *)
(* that call would return and the state it would leave.                   *)
(***************************************************************************)
Me == Start(1, 0)
OpenTx == {t \in DOMAIN etx : etx[t].status = "open"}

\* P holds of the result of every Get, Set, Del, GetMime, SetMime, ListKeys
\* and Tally* call made in state s
EveryCall(s, P(_)) ==
    /\ \A k \in Keys :
          /\ P(Get(s, k))
          /\ P(GetMime(s, k))
          /\ P(Del(s, k))
          /\ \A v \in Vals : P(Set(s, k, v))
          /\ \A m \in Mimes : P(SetMime(s, k, m))
    /\ \A pat \in Patterns : P(ListKeys(s, pat))
    /\ \A k \in TallyKeys :
          /\ \A n \in Offsets : P(Tally(s, k, n))
          /\ P(TallyIncr(s, k))
          /\ P(TallyDecr(s, k))
          /\ P(TallyReset(s, k))

\* C1: after Open and Begin and then only Set, Del, SetMime and Tally* calls,
\* Rollback leaves the committed rows equal to those at Begin.
C1_RollbackRestores == snap.on => Rollback(Me).s.store = snap.rows

\* C2: a Commit that returns success while a transaction is active leaves
\* every write issued since Begin in the committed rows, and the instance
\* inactive.
C2_CommitApplies ==
    (issued.on /\ pkv[1].inTransaction) =>
        LET c == Commit(Me)
        IN  c.err = "nil" =>
              /\ \A pk \in issued.touched :
                    Lookup(c.s.store, pk[1], pk[2]) = Lookup(issued.rows, pk[1], pk[2])
              /\ ~c.s.p.inTransaction

\* C3: between a successful Begin and the next Commit or Rollback every data
\* call sends its statements to that transaction; with no transaction active
\* it sends them to the connection, auto-committed.
C3_Routing ==
    LET OnTx(r) == r.s.routes \subseteq {issued.tx}
        OnDb(r) == r.s.routes \subseteq {0}
    IN  /\ issued.on => EveryCall(Me, OnTx)
        /\ (~issued.on /\ ~pkv[1].inTransaction) => EveryCall(Me, OnDb)

\* C4: in every reachable state, a Set(key, value) that succeeds, followed at
\* once by Get(key), returns value.
C4_SetThenGet ==
    \A k \in Keys, v \in Vals :
        LET w == Set(Me, k, v)
            g == Get(w.s, k)
        IN  (w.err = "nil" /\ g.err = "nil") => g.val = v

\* C5: the instance never has more than one transaction begun on the engine
\* and neither committed nor rolled back.
C5_OneOpenTransaction == Cardinality(OpenTx) <= 1

\* C6: with no transaction active, Commit and Rollback return success and
\* change neither the committed rows nor the instance.
C6_InactiveNoOp ==
    ~pkv[1].inTransaction =>
        LET Same(r) == r.err = "nil" /\ r.s.p = pkv[1] /\ r.s.store = store
        IN  Same(Commit(Me)) /\ Same(Rollback(Me))

\* C7: Close never commits: after Close and a re-Open the committed rows are
\* those before Close, the transaction Close dropped is still uncommitted,
\* the instance is inactive and its next call goes to the connection; a
\* closed instance commits nothing, and Close on it succeeds and changes
\* nothing.
C7_CloseDiscards ==
    LET c == Close(Me)
        o == Open(c.s)
        Implicit(r) ==
            /\ r.err # "panic"
            /\ r.s.routes \subseteq {0}
            /\ \A t \in OpenTx : r.s.etx[t] = etx[t]
    IN  /\ c.err = "nil"
        /\ c.s.store = store
        /\ \A t \in OpenTx : c.s.etx[t] = etx[t]
        /\ ~pkv[1].db =>
              /\ c.s.p = pkv[1] /\ c.s.etx = etx
              /\ \A r \in {Commit(Me), Rollback(Me)} :
                    r.s.store = store /\ r.s.etx = etx
        /\ o.err = "nil" =>
              /\ o.s.store = store
              /\ o.s.p.tx = 0
              /\ ~o.s.p.inTransaction
              /\ EveryCall(o.s, Implicit)

\* C7's case: a transaction with writes was dropped by a Close, the instance
\* was opened again and is inactive, and the writes are not committed
C7_Dropped ==
    /\ pkv[1].db
    /\ pkv[1].tx = 0
    /\ ~pkv[1].inTransaction
    /\ \E t \in OpenTx : etx[t].writer /\ etx[t].rows # store

\* the counter of key k as instance 1 reads it
Counter(k) == TallyRead(Me, k)

\* C8: Tally(k, offset) on a key with no counter returns offset, and so does
\* the Tally that follows it.
C8_TallyCreates ==
    \A k \in TallyKeys, n \in Offsets :
        LET t == Tally(Me, k, n)
            u == Tally(t.s, k, 0)
        IN  (Counter(k).err = "nil" /\ Counter(k).val = <<>> /\ t.err = "nil") =>
              /\ t.val = n
              /\ u.err = "nil" => u.val = n

\* C9: when the counter of k holds the integer v, TallyIncr returns v + 1
\* and TallyDecr v - 1, and the counter then holds what was returned.
C9_TallySteps ==
    \A k \in TallyKeys :
        LET c == Counter(k)
            v == Atoi(c.val)
            Stepped(r, d) ==
                r.err = "nil" =>
                  /\ r.val = v + d
                  /\ LET a == TallyRead(r.s, k)
                     IN  a.err = "nil" => a.val = Itoa(v + d)
        IN  (c.err = "nil" /\ c.val # <<>> /\ c.val = Itoa(v)) =>
              /\ Stepped(TallyIncr(Me, k), 1)
              /\ Stepped(TallyDecr(Me, k), -1)

\* the counter the two callers started from, and the one they left
RaceDone == \A i \in Inst : race[i].pc = "done"
RaceFirst ==
    IF Atoi(race[1].read) <= Atoi(race[2].read)
    THEN Atoi(race[1].read) ELSE Atoi(race[2].read)
RaceCounter == Atoi((CHOOSE r \in RaceRow : TRUE).Value)

\* C10: when both TallyIncr calls have returned, each returned one more
\* than it read, and either they returned different values and the counter
\* rose by two, or they returned the same value and it rose by one.
C10_LostUpdate ==
    RaceDone =>
        /\ \A i \in Inst : race[i].ret = Atoi(race[i].read) + 1
        /\ RaceRow # {}
        /\ (race[1].ret # race[2].ret) <=> (RaceCounter = RaceFirst + 2)
        /\ (race[1].ret = race[2].ret) <=> (RaceCounter = RaceFirst + 1)

\* C10's case: both calls returned the same value and one update is lost
C10_Lost ==
    /\ RaceDone
    /\ race[1].ret = race[2].ret
    /\ RaceRow # {}
    /\ RaceCounter = RaceFirst + 1

\* C11: after a Del(k) that succeeds, Get(k) returns an empty value and no
\* error, and GetMime(k) returns text/html and no error.
C11_DelThenGet ==
    \A k \in Keys :
        LET d == Del(Me, k)
            g == Get(d.s, k)
            m == GetMime(d.s, k)
        IN  d.err = "nil" =>
              /\ g.err = "nil" /\ g.val = <<>>
              /\ m.err = "nil" /\ m.val = textHtml

(***************************************************************************)
(* The length limits of set.  The inputs are strings of the lengths at    *)
(* and just over each limit, built by doubling.                           *)
(***************************************************************************)
RECURSIVE Long(_)
Long(n) ==
    IF n = 0 THEN <<>>
    ELSE LET half == Long(n \div 2)
         IN  IF n % 2 = 1 THEN half \o half \o <<"x">> ELSE half \o half
Bucket50 == Long(50)
Bucket51 == Long(51)
Key300 == Long(300)
Key301 == Long(301)
Value16777215 == Long(16777215)
Value16777216 == Long(16777216)

LenBuckets == {default, Bucket50, Bucket51}
LenKeys == {Key300, Key301}
LenVals == {<<"x">>, Value16777216}

DoSetLen(i) == \E f \in Failing(4), k \in LenKeys, v \in LenVals :
    /\ ~panicked
    /\ Write(i, Set(Start(i, f), k, v))

NextLen ==
    \/ Lifecycle
    \/ DoSetBucket(1, LenBuckets)
    \/ DoSetLen(1)

SpecLen == Init /\ [][NextLen]_vars

\* no committed row and no row of an open transaction differs from before
SameRecords(s) ==
    /\ s.store = store
    /\ \A t \in OpenTx : s.etx[t] = etx[t]

\* C12: a Set with a bucket of 51 bytes returns ErrBucketIdTooLong; with a
\* bucket of 50 and a key of 301, ErrKeyTooLong; with those at 50 and 300 and
\* a value of 16,777,216, ErrValueTooLong; each leaves the records as they
\* were.  With all three at 50, 300 and 16,777,215 none of these errors is
\* returned, and when the call succeeds the record is stored.
C12_LengthLimits ==
    LET Try(b, k, v) == Set(SetBucket(Me, b).s, k, v)
        Refused(r, e) == r.err = e /\ SameRecords(r.s)
        ok == Try(Bucket50, Key300, Value16777215)
    IN  /\ \A k \in {Key300, Key301}, v \in {Value16777215, Value16777216} :
              Refused(Try(Bucket51, k, v), "ErrBucketIdTooLong")
        /\ \A v \in {Value16777215, Value16777216} :
              Refused(Try(Bucket50, Key301, v), "ErrKeyTooLong")
        /\ Refused(Try(Bucket50, Key300, Value16777216), "ErrValueTooLong")
        /\ ok.err \notin {"ErrBucketIdTooLong", "ErrKeyTooLong", "ErrValueTooLong"}
        /\ ok.err = "nil" =>
              \E rows \in {ok.s.store} \cup {ok.s.etx[t].rows : t \in DOMAIN etx} :
                  Row(Bucket50, Key300, Value16777215) \in rows

\* C12's case: a record whose bucket and key are exactly at their limits was
\* accepted, and over-long calls were refused on the way
C12_AtLimit ==
    /\ \E r \in store : Len(r.Bucket) = 50 /\ Len(r.KeyID) = 300
    /\ Len(pkv[1].currBuckt) = 51

\* C13: whatever the state, each of Get, Set, Del, ListKeys, Tally,
\* TallyIncr, TallyDecr and TallyReset called after SetBucket("") returns
\* what it returns after SetBucket("default") and leaves the same rows.
C13_EmptyIsDefault ==
    LET e == SetBucket(Me, <<>>).s
        d == SetBucket(Me, default).s
        Same(a, b) ==
            /\ a.err = b.err
            /\ a.val = b.val
            /\ a.s.store = b.s.store
            /\ a.s.etx = b.s.etx
    IN  /\ \A k \in Keys :
              /\ Same(Get(e, k), Get(d, k))
              /\ Same(Del(e, k), Del(d, k))
              /\ \A v \in Vals : Same(Set(e, k, v), Set(d, k, v))
        /\ \A pat \in Patterns : Same(ListKeys(e, pat), ListKeys(d, pat))
        /\ \A k \in TallyKeys :
              /\ \A n \in Offsets : Same(Tally(e, k, n), Tally(d, k, n))
              /\ Same(TallyIncr(e, k), TallyIncr(d, k))
              /\ Same(TallyDecr(e, k), TallyDecr(d, k))
              /\ Same(TallyReset(e, k), TallyReset(d, k))

\* the rows a data call of instance 1 made now is answered from, and the
\* bucket it is answered for
Stored == LET o == Open(Me).s IN Visible(o, Handle(o))
CurrentBucket == IF pkv[1].currBuckt = <<>> THEN default ELSE pkv[1].currBuckt
IsPrefix(pre, str) == Len(pre) <= Len(str) /\ SubSeq(str, 1, Len(pre)) = pre

\* C14: a ListKeys(pattern) that succeeds returns exactly the keys of the
\* current bucket that start with pattern taken literally, also when the
\* pattern holds % or _ or differs from a key in letter case.
C14_LiteralPrefix ==
    \A pat \in Patterns \cup {<<"A">>, <<"%">>, <<"a", "%">>} :
        LET r == ListKeys(Me, pat)
        IN  r.err = "nil" =>
              r.val = {q.KeyID : q \in {w \in Stored :
                                          w.Bucket = CurrentBucket /\ IsPrefix(pat, w.KeyID)}}

\* the table is there for the next call: it exists, or the call's Open
\* creates it
HasTable == tableExists \/ ~pkv[1].db

\* C15: in every state where the table is there, Get of a key with no
\* record in the current bucket returns an empty value and no error, and
\* leaves the records as they were.
C15_GetAbsent ==
    \A k \in Keys :
        LET g == Get(Me, k)
        IN  (HasTable /\ Lookup(Stored, CurrentBucket, k) = {}) =>
              /\ g.err = "nil"
              /\ g.val = <<>>
              /\ SameRecords(g.s)

\* C16: Open on an instance whose p.db is set returns success and changes
\* neither the instance's fields (connection, in-transaction flag,
\* transaction handle) nor any row, committed or not.
C16_OpenAgain ==
    pkv[1].db =>
        \A f \in Failing(2) :
            LET o == Open(Start(1, f))
            IN  /\ o.err = "nil"
                /\ o.s.p = pkv[1]
                /\ o.s.store = store
                /\ o.s.etx = etx
                /\ o.s.tableExists = tableExists

\* C16's case: the connection exists and a transaction with uncommitted
\* writes is active on it
C16_OpenInTransaction ==
    /\ pkv[1].db
    /\ pkv[1].inTransaction
    /\ pkv[1].tx # 0
    /\ etx[pkv[1].tx].status = "open"
    /\ etx[pkv[1].tx].writer
    /\ etx[pkv[1].tx].rows # store

\* C17: a Set refused for its bucket, key or value length has not touched
\* the engine: the connection is open or closed as before, the table exists
\* or not as before, and the transaction handle and flag are as before.
C17_RefusedBeforeEngine ==
    \A b \in {Bucket50, Bucket51}, k \in {Key300, Key301},
       v \in {<<"x">>, Value16777216} :
        LET r == Set(SetBucket(Me, b).s, k, v)
        IN  r.err \in {"ErrBucketIdTooLong", "ErrKeyTooLong", "ErrValueTooLong"} =>
              /\ r.s.p.db = pkv[1].db
              /\ r.s.tableExists = tableExists
              /\ r.s.p.tx = pkv[1].tx
              /\ r.s.p.inTransaction = pkv[1].inTransaction

\* a transaction begun by instance 1 is active: p.tx is a live transaction
\* and statements are routed to it
Active ==
    /\ pkv[1].db
    /\ pkv[1].inTransaction
    /\ pkv[1].tx # 0
    /\ etx[pkv[1].tx].status = "open"

\* the engine call of a Del made now that is its second delete: the two of
\* Open come first when the connection is closed
SecondDelete == (IF pkv[1].db THEN 0 ELSE 2) + 2

\* the Del of key k made now, with its second delete failing
DelHalf(k) == Del(Start(1, SecondDelete), k)

\* C18: take a state where Del(k) would succeed, and let its second delete
\* fail.  Del returns that error.  With a transaction active both deletes
\* went to it, and after Rollback the committed rows are those before and
\* Get(k) returns the committed value.  With none active both went to the
\* connection: the data row is gone from the committed rows and every
\* other row, the mime row included, is as before.
C18_DelInTwoSteps ==
    \A k \in Keys :
        LET d == DelHalf(k)
            rb == Rollback([d.s EXCEPT !.fail = 0])
            g == Get(rb.s, k)
            was == Lookup(store, CurrentBucket, k)
        IN  Del(Me, k).err = "nil" =>
              /\ d.err = "engine"
              /\ Active =>
                    /\ d.s.routes = {pkv[1].tx}
                    /\ rb.err = "nil"
                    /\ rb.s.store = store
                    /\ g.err = "nil"
                    /\ g.val = IF was = {} THEN <<>> ELSE (CHOOSE r \in was : TRUE).Value
              /\ ~Active =>
                    /\ d.s.routes = {0}
                    /\ d.s.store = Delete(store, CurrentBucket, k)

\* C18's case, with no transaction: the data row and the mime row of a key
\* are committed, and a Del whose second delete fails removes the first and
\* leaves the second
C18_HalfDeleted ==
    \E k \in Keys :
        /\ ~Active
        /\ Lookup(store, CurrentBucket, k) # {}
        /\ Lookup(store, mimeBuckt, k) # {}
        /\ DelHalf(k).err = "engine"
        /\ Lookup(DelHalf(k).s.store, CurrentBucket, k) = {}
        /\ Lookup(DelHalf(k).s.store, mimeBuckt, k) # {}

\* C19: whenever p.db is set and p.inTransaction is true, p.tx is not nil,
\* and so no data call dereferences a nil p.tx.
C19_HandlePresent ==
    LET NoPanic(r) == r.err # "panic"
    IN  /\ (pkv[1].db /\ pkv[1].inTransaction) => pkv[1].tx # 0
        /\ EveryCall(Me, NoPanic)

\* what Get, GetMime and ListKeys return in state s once the bucket is b
Observed(s, b) ==
    LET u == SetBucket(s, b).s
        Out(r) == <<r.err, r.val>>
    IN  [get |-> [k \in Keys |-> Out(Get(u, k))],
         mime |-> [k \in Keys |-> Out(GetMime(u, k))],
         list |-> [pat \in Patterns |-> Out(ListKeys(u, pat))]]

DataBucket(b) == IF b = <<>> THEN default ELSE b

\* every call observed returned without error
Answered(obs) ==
    /\ \A k \in Keys : obs.get[k][1] = "nil" /\ obs.mime[k][1] = "nil"
    /\ \A pat \in Patterns : obs.list[pat][1] = "nil"

\* C20: for data buckets A and B that differ, a Set or a Del made under A
\* leaves what Get, GetMime and ListKeys return under B as it was, whenever
\* they returned without error before.
C20_BucketsApart ==
    \A A \in Buckets, B \in Buckets :
        (DataBucket(A) # DataBucket(B) /\ Answered(Observed(Me, B))) =>
            \A k \in Keys :
                LET a == SetBucket(Me, A).s
                    before == Observed(Me, B)
                IN  /\ \A v \in Vals : Observed(Set(a, k, v).s, B) = before
                    /\ Observed(Del(a, k).s, B) = before
====
